---- MODULE Spec2Model ----
(***************************************************************************)
(* Model of homework.py: the workout calculator (InfoMessage, Training and *)
(* its subclasses Running, SportsWalking, Swimming, and read_package).     *)
(*                                                                         *)
(* Python numbers are modelled as they are in CPython: an int is an exact  *)
(* integer, a float is an IEEE-754 binary64 value m * 2^e with a 53-bit    *)
(* mantissa, and every float operation returns the exact result rounded to *)
(* nearest, ties to even.  TLC's integers are 32 bits wide, so mantissas   *)
(* are held as little-endian sequences of 14-bit limbs.  All numbers the   *)
(* program sees here are non-negative (no operation subtracts), far from   *)
(* overflow and underflow, so sign, subnormals and infinities are left     *)
(* out.                                                                    *)
(***************************************************************************)
EXTENDS Integers, Sequences, FiniteSets, TLC

VARIABLES training, info, result

vars == <<training, info, result>>

---------------------------------------------------------------------------
(* Bounds of the model. *)

\* action counts 0..MaxAction are tried (and the driver's step count)
MaxAction == 7
\* durations 0..MaxDuration hours are tried
MaxDuration == 2
\* readings lists of length 0..MaxLen are tried
MaxLen == 6

---------------------------------------------------------------------------
(* binary64 arithmetic on big naturals *)

\* the element of a singleton set.  In The({e(x) : x \in {v}}) the value v is
\* computed once and e reads it as the bound x: this is how an intermediate
\* result is named throughout the module.
The(S) == CHOOSE v \in S : TRUE

LimbBits == 14
Base == 16384
MantBits == 53

RECURSIVE Pow2(_)
Pow2(n) == IF n = 0 THEN 1 ELSE 2 * Pow2(n - 1)

RECURSIVE BitLenInt(_)
BitLenInt(n) == IF n = 0 THEN 0 ELSE 1 + BitLenInt(n \div 2)

RECURSIVE TopLimb(_, _)
TopLimb(a, i) == IF i = 0 THEN 0 ELSE IF a[i] # 0 THEN i ELSE TopLimb(a, i - 1)

\* a big natural is the sequence of its limbs, least significant first, the
\* last limb non-zero; BigNorm drops leading zero limbs
BigNorm(a) == The({SubSeq(x, 1, TopLimb(x, Len(x))) : x \in {a}})

RECURSIVE BigFromInt(_)
BigFromInt(n) == IF n = 0 THEN <<>> ELSE <<n % Base>> \o BigFromInt(n \div Base)

RECURSIVE BigToIntFrom(_, _)
BigToIntFrom(a, i) == IF i > Len(a) THEN 0 ELSE a[i] + Base * BigToIntFrom(a, i + 1)

BigToInt(a) == The({BigToIntFrom(x, 1) : x \in {a}})

Limb(a, i) == IF i <= Len(a) THEN a[i] ELSE 0

BitLen(a) ==
    The({IF x = <<>> THEN 0 ELSE LimbBits * (Len(x) - 1) + BitLenInt(x[Len(x)])
         : x \in {a}})

RECURSIVE BigCmpFrom(_, _, _)
BigCmpFrom(a, b, i) ==
    IF i = 0 THEN 0
    ELSE IF a[i] < b[i] THEN -1
    ELSE IF a[i] > b[i] THEN 1
    ELSE BigCmpFrom(a, b, i - 1)

\* -1, 0, 1 as a < b, a = b, a > b
BigCmp(a, b) ==
    The({IF Len(x) < Len(y) THEN -1
         ELSE IF Len(x) > Len(y) THEN 1
         ELSE BigCmpFrom(x, y, Len(x))
         : x \in {a}, y \in {b}})

RECURSIVE BigAddFrom(_, _, _, _)
BigAddFrom(a, b, i, carry) ==
    IF i > Len(a) /\ i > Len(b)
    THEN IF carry = 0 THEN <<>> ELSE <<carry>>
    ELSE The({<<s % Base>> \o BigAddFrom(a, b, i + 1, s \div Base)
              : s \in {Limb(a, i) + Limb(b, i) + carry}})

BigAdd(a, b) == The({BigAddFrom(x, y, 1, 0) : x \in {a}, y \in {b}})

RECURSIVE BigSubFrom(_, _, _, _)
BigSubFrom(a, b, i, borrow) ==
    IF i > Len(a) THEN <<>>
    ELSE The({IF d < 0
              THEN <<d + Base>> \o BigSubFrom(a, b, i + 1, 1)
              ELSE <<d>> \o BigSubFrom(a, b, i + 1, 0)
              : d \in {a[i] - Limb(b, i) - borrow}})

\* a - b, for a >= b
BigSub(a, b) == BigNorm(The({BigSubFrom(x, y, 1, 0) : x \in {a}, y \in {b}}))

RECURSIVE BigMulSmallFrom(_, _, _, _)
BigMulSmallFrom(a, k, i, carry) ==
    IF i > Len(a)
    THEN IF carry = 0 THEN <<>> ELSE <<carry>>
    ELSE The({<<p % Base>> \o BigMulSmallFrom(a, k, i + 1, p \div Base)
              : p \in {a[i] * k + carry}})

\* a * k, for 0 <= k < Base
BigMulSmall(a, k) ==
    The({IF j = 0 THEN <<>> ELSE BigMulSmallFrom(x, j, 1, 0) : x \in {a}, j \in {k}})

ZeroLimbs(n) == [i \in 1..n |-> 0]

RECURSIVE BigMulFrom(_, _, _)
BigMulFrom(a, b, i) ==
    IF i > Len(b) THEN <<>>
    ELSE BigAdd(IF b[i] = 0 THEN <<>> ELSE ZeroLimbs(i - 1) \o BigMulSmall(a, b[i]),
                BigMulFrom(a, b, i + 1))

BigMul(a, b) == The({BigMulFrom(x, y, 1) : x \in {a}, y \in {b}})

\* a * 2^s
BigShl(a, s) ==
    The({IF x = <<>> THEN <<>>
         ELSE ZeroLimbs(n \div LimbBits) \o BigMulSmall(x, Pow2(n % LimbBits))
         : x \in {a}, n \in {s}})

RECURSIVE BigDivSmallFrom(_, _, _, _)
BigDivSmallFrom(a, k, i, rem) ==
    IF i = 0 THEN <<>>
    ELSE The({BigDivSmallFrom(a, k, i - 1, n % k) \o <<n \div k>>
              : n \in {rem * Base + a[i]}})

\* a \div k, for 0 < k < Base
BigDivSmall(a, k) ==
    BigNorm(The({BigDivSmallFrom(x, j, Len(x), 0) : x \in {a}, j \in {k}}))

\* a \div 2^s
BigShr(a, s) ==
    The({IF n \div LimbBits >= Len(x) THEN <<>>
         ELSE BigDivSmall(SubSeq(x, 1 + n \div LimbBits, Len(x)), Pow2(n % LimbBits))
         : x \in {a}, n \in {s}})

\* a % 2^s
BigLow(a, s) == The({BigSub(x, BigShl(BigShr(x, n), n)) : x \in {a}, n \in {s}})

\* a float: value m * 2^e, BitLen(m) = MantBits, or zero
PyFloat(m, e) == [t |-> "float", m |-> m, e |-> e]

Zero == PyFloat(<<>>, 0)

\* m * 2^e with BitLen(m) <= MantBits + 1 and, when it is MantBits + 1, m even
Renorm(m, e) ==
    The({IF BitLen(x) > MantBits THEN PyFloat(BigShr(x, 1), e + 1) ELSE PyFloat(x, e)
         : x \in {m}})

\* q * 2^e with its d > 0 lowest bits rounded away, to nearest, ties to even;
\* sticky: the exact value lies above q * 2^e
RoundAway(q, sticky, e, d) ==
    The({Renorm(IF c > 0 \/ (c = 0 /\ (sticky \/ m0[1] % 2 = 1))
                THEN BigAdd(m0, <<1>>)
                ELSE m0,
                e + d)
         : m0 \in {BigShr(q, d)},
           c  \in {BigCmp(BigLow(q, d), BigShl(<<1>>, d - 1))}})

\* the value (q + f) * 2^e, 0 <= f < 1 and f > 0 iff sticky, rounded to 53 bits
RoundBig(q, sticky, e) ==
    The({The({IF x = <<>> THEN Zero
              ELSE IF d <= 0 THEN PyFloat(BigShl(x, -d), e + d)
              ELSE RoundAway(x, s, e, d)
              : d \in {BitLen(x) - MantBits}})
         : x \in {q}, s \in {sticky}})

FromInt(n) == RoundBig(BigFromInt(n), FALSE, 0)

FMul(a, b) ==
    The({IF x.m = <<>> \/ y.m = <<>> THEN Zero
         ELSE RoundBig(BigMul(x.m, y.m), FALSE, x.e + y.e)
         : x \in {a}, y \in {b}})

Min(i, j) == IF i < j THEN i ELSE j

FAdd(a, b) ==
    The({IF x.m = <<>> THEN y
         ELSE IF y.m = <<>> THEN x
         ELSE RoundBig(BigAdd(BigShl(x.m, x.e - Min(x.e, y.e)),
                              BigShl(y.m, y.e - Min(x.e, y.e))),
                       FALSE, Min(x.e, y.e))
         : x \in {a}, y \in {b}})

\* k more bits of the quotient of r * 2^k by b, for r < b: <<quotient, remainder>>
RECURSIVE DivBits(_, _, _, _)
DivBits(r, b, k, acc) ==
    IF k = 0 THEN <<acc, r>>
    ELSE The({IF BigCmp(r2, b) >= 0
              THEN DivBits(BigSub(r2, b), b, k - 1, 2 * acc + 1)
              ELSE DivBits(r2, b, k - 1, 2 * acc)
              : r2 \in {BigAdd(r, r)}})

\* n more limbs of the quotient: <<limbs, remainder>>
RECURSIVE DivLimbs(_, _, _)
DivLimbs(r, b, n) ==
    IF n = 0 THEN <<<<>>, r>>
    ELSE The({The({<<rest[1] \o <<hi[1]>>, rest[2]>> : rest \in {DivLimbs(hi[2], b, n - 1)}})
              : hi \in {DivBits(r, b, LimbBits, 0)}})

\* a / b by long division: 1 + 4 * LimbBits quotient bits and the sticky bit
FDiv(a, b) ==
    The({IF x.m = <<>> THEN Zero
         ELSE The({The({RoundBig(BigNorm(frac[1] \o <<q0>>), frac[2] # <<>>,
                                 x.e - y.e - 4 * LimbBits)
                        : frac \in {DivLimbs(IF q0 = 1 THEN BigSub(x.m, y.m) ELSE x.m,
                                             y.m, 4)}})
                   : q0 \in {IF BigCmp(x.m, y.m) >= 0 THEN 1 ELSE 0}})
         : x \in {a}, y \in {b}})

\* the float a decimal literal n/d denotes (the literal is rounded correctly,
\* as is the quotient of two exactly representable integers)
Decimal(n, d) == FDiv(FromInt(n), FromInt(d))

\* a < b
FLess(a, b) ==
    The({IF y.m = <<>> THEN FALSE
         ELSE IF x.m = <<>> THEN TRUE
         ELSE BigCmp(BigShl(x.m, x.e - Min(x.e, y.e)),
                     BigShl(y.m, y.e - Min(x.e, y.e))) < 0
         : x \in {a}, y \in {b}})

\* |a - b| * 2^bits <= max(a, b)
FClose(a, b, bits) ==
    The({The({BigCmp(BigShl(IF BigCmp(p, q) >= 0 THEN BigSub(p, q) ELSE BigSub(q, p), bits),
                     IF BigCmp(p, q) >= 0 THEN p ELSE q) <= 0
              : p \in {BigShl(x.m, x.e - Min(x.e, y.e))},
                q \in {BigShl(y.m, y.e - Min(x.e, y.e))}})
         : x \in {a}, y \in {b}})

\* t * 2^(-s) rounded to the nearest integer, ties to even, for s > 0
RoundShift(t, s) ==
    The({IF c > 0 \/ (c = 0 /\ n % 2 = 1) THEN n + 1 ELSE n
         : n \in {BigToInt(BigShr(t, s))},
           c \in {BigCmp(BigLow(t, s), BigShl(<<1>>, s - 1))}})

\* a * scale rounded to the nearest integer, ties to even (a * scale < 2^31)
RoundHalfEven(a, scale) ==
    The({IF x.m = <<>> THEN 0
         ELSE IF x.e >= 0 THEN BigToInt(BigShl(BigMulSmall(x.m, scale), x.e))
         ELSE RoundShift(BigMulSmall(x.m, scale), -x.e)
         : x \in {a}})

---------------------------------------------------------------------------
(* Python values: ints, floats, strings, None *)

PyInt(n) == [t |-> "int", n |-> n]

PyStr(s) == [t |-> "str", s |-> s]

PyNone == [t |-> "None"]

ToFloat(v) == The({IF x.t = "int" THEN FromInt(x.n) ELSE x : x \in {v}})

IsZero(v) == The({IF x.t = "int" THEN x.n = 0 ELSE x.m = <<>> : x \in {v}})

\* a * b: int * int is exact, anything else is a float product
PyMul(a, b) ==
    The({IF x.t = "int" /\ y.t = "int" THEN PyInt(x.n * y.n)
         ELSE FMul(ToFloat(x), ToFloat(y))
         : x \in {a}, y \in {b}})

\* a + b
PyAdd(a, b) ==
    The({IF x.t = "int" /\ y.t = "int" THEN PyInt(x.n + y.n)
         ELSE FAdd(ToFloat(x), ToFloat(y))
         : x \in {a}, y \in {b}})

\* a / b, b non-zero: true division, always a float
PyTrueDiv(a, b) == FDiv(ToFloat(a), ToFloat(b))

\* a ** 2 for a float a
PySquare(a) == The({FMul(x, x) : x \in {ToFloat(a)}})

RECURSIVE Digits(_, _)
Digits(n, width) ==
    IF width = 0 THEN "" ELSE Digits(n \div 10, width - 1) \o ToString(n % 10)

\* format(v, ".3f")
Format3f(v) ==
    The({ToString(n \div 1000) \o "." \o Digits(n % 1000, 3)
         : n \in {RoundHalfEven(ToFloat(v), 1000)}})

\* outcome of a call: a returned value or a raised exception
Return(v) == [status |-> "ok", value |-> v]

Raise(exc) == [status |-> exc, value |-> PyNone]

---------------------------------------------------------------------------
(* InfoMessage *)

Lit(s) == [kind |-> "lit", text |-> s, spec |-> ""]

Field(name, spec) == [kind |-> "field", text |-> name, spec |-> spec]

\* the default of the field Message (the Cyrillic literals are transliterated)
Message ==
    << Lit("Tip trenirovki: "), Field("training_type", ""),
       Lit("; Dlitelnost: "), Field("duration", ".3f"),
       Lit(" ch.; Distantsiya: "), Field("distance", ".3f"),
       Lit(" km; Sr. skorost: "), Field("speed", ".3f"),
       Lit(" km/ch; Potracheno kkal: "), Field("calories", ".3f"),
       Lit(".") >>

InfoFields == {"training_type", "duration", "distance", "speed", "calories", "Message"}

NoInfo == [cls |-> "None"]

\* the generated __init__: five positional fields and the optional sixth, Message
InfoMessage(args) ==
    IF Len(args) < 5 \/ Len(args) > 6 THEN Raise("TypeError")
    ELSE Return([cls           |-> "InfoMessage",
                 training_type |-> args[1],
                 duration      |-> args[2],
                 distance      |-> args[3],
                 speed         |-> args[4],
                 calories      |-> args[5],
                 Message       |-> IF Len(args) = 6 THEN args[6] ELSE Message])

asdict(self) == [f \in InfoFields |-> self[f]]

\* one replacement field of str.format: "" on a str, ".3f" on a number
FormatField(v, spec) == IF spec = ".3f" THEN Format3f(v) ELSE v.s

RECURSIVE Format(_, _)
Format(template, kwargs) ==
    IF template = <<>> THEN ""
    ELSE (IF Head(template).kind = "lit" THEN Head(template).text
          ELSE FormatField(kwargs[Head(template).text], Head(template).spec))
         \o Format(Tail(template), kwargs)

get_message(self) == Return(PyStr(Format(self.Message, asdict(self))))

---------------------------------------------------------------------------
(* Training and its subclasses *)

LEN_STEP_Training == Decimal(65, 100)

LEN_STEP_Swimming == Decimal(138, 100)

\* variant: Swimming without its own LEN_STEP
LEN_STEP_inherited(cls) == LEN_STEP_Training

\* attribute lookup self.LEN_STEP: Swimming overrides the class attribute
LEN_STEP(cls) == IF cls = "Swimming" THEN LEN_STEP_Swimming ELSE LEN_STEP_Training

M_IN_KM == PyInt(1000)

HOURS_IN_MINUTES == PyInt(60)

CALORIES_MEAN_SPEED_MULTIPLIER == PyInt(18)

\* variant: another shift
CALORIES_MEAN_SPEED_SHIFT_other == Decimal(197, 100)

CALORIES_MEAN_SPEED_SHIFT == Decimal(179, 100)

MULTIPLIER_CALORIES_1 == Decimal(35, 1000)

MULTIPLIER_CALORIES_2 == Decimal(29, 1000)

KMHOUR_IN_MSECOND == Decimal(278, 1000)

SM_IN_MTR == PyInt(100)

MULTIPLIER_CALORIES_3 == Decimal(11, 10)

MULTIPLIER_CALORIES_4 == PyInt(2)

NoTraining == [cls |-> "None"]

Training_init(cls, args) ==
    [cls |-> cls, action |-> args[1], duration |-> args[2], weight |-> args[3]]

SportsWalking_init(cls, args) ==
    Training_init(cls, SubSeq(args, 1, 3)) @@ [height |-> args[4]]

\* variant: the two pool readings bound in the wrong order
Swimming_init_swapped(cls, args) ==
    Training_init(cls, SubSeq(args, 1, 3))
        @@ [length_pool |-> args[5], count_pool |-> args[4]]

Swimming_init(cls, args) ==
    Training_init(cls, SubSeq(args, 1, 3))
        @@ [length_pool |-> args[4], count_pool |-> args[5]]

\* number of positional parameters of cls.__init__ besides self
InitArity(cls) ==
    IF cls = "Swimming" THEN 5 ELSE IF cls = "SportsWalking" THEN 4 ELSE 3

\* the call cls(*args)
New(cls, args) ==
    IF Len(args) # InitArity(cls) THEN Raise("TypeError")
    ELSE IF cls = "Swimming" THEN Return(Swimming_init(cls, args))
    ELSE IF cls = "SportsWalking" THEN Return(SportsWalking_init(cls, args))
    ELSE Return(Training_init(cls, args))

get_distance(self) ==
    Return(PyTrueDiv(PyMul(self.action, LEN_STEP(self.cls)), M_IN_KM))

Training_get_mean_speed(self) ==
    IF IsZero(self.duration) THEN Raise("ZeroDivisionError")
    ELSE Return(PyTrueDiv(get_distance(self).value, self.duration))

\* variant: Swimming without its own get_mean_speed
Swimming_get_mean_speed_inherited(self) == Training_get_mean_speed(self)

Swimming_get_mean_speed(self) ==
    IF IsZero(self.duration) THEN Raise("ZeroDivisionError")
    ELSE Return(PyTrueDiv(PyTrueDiv(PyMul(self.length_pool, self.count_pool),
                                    M_IN_KM),
                          self.duration))

\* method resolution: Swimming overrides get_mean_speed
get_mean_speed(self) ==
    IF self.cls = "Swimming" THEN Swimming_get_mean_speed(self)
    ELSE Training_get_mean_speed(self)

\* variant: the base class returns a number
Training_get_spent_calories_zero(self) == Return(PyInt(0))

Training_get_spent_calories(self) == Raise("NotImplementedError")

\* variant: the duration is left in hours
Running_get_spent_calories_hours(self) ==
    The({IF speed.status # "ok" THEN speed
         ELSE Return(PyMul(PyTrueDiv(PyMul(PyAdd(PyMul(PyInt(18), speed.value),
                                                 Decimal(179, 100)),
                                           self.weight),
                                     PyInt(1000)),
                           self.duration))
         : speed \in {get_mean_speed(self)}})

Running_get_spent_calories(self) ==
    The({IF speed.status # "ok" THEN speed
         ELSE Return(PyMul(PyMul(PyTrueDiv(PyMul(PyAdd(PyMul(CALORIES_MEAN_SPEED_MULTIPLIER,
                                                             speed.value),
                                                       CALORIES_MEAN_SPEED_SHIFT),
                                                 self.weight),
                                           M_IN_KM),
                                 self.duration),
                           HOURS_IN_MINUTES))
         : speed \in {get_mean_speed(self)}})

SportsWalking_get_spent_calories(self) ==
    The({IF speed.status # "ok" THEN speed
         ELSE IF IsZero(self.height) THEN Raise("ZeroDivisionError")
         ELSE Return(PyMul(PyAdd(PyMul(MULTIPLIER_CALORIES_1, self.weight),
                                 PyMul(PyMul(PyTrueDiv(PySquare(PyMul(speed.value,
                                                                      KMHOUR_IN_MSECOND)),
                                                       PyTrueDiv(self.height, SM_IN_MTR)),
                                             MULTIPLIER_CALORIES_2),
                                       self.weight)),
                           PyMul(self.duration, HOURS_IN_MINUTES)))
         : speed \in {get_mean_speed(self)}})

Swimming_get_spent_calories(self) ==
    The({IF speed.status # "ok" THEN speed
         ELSE Return(PyMul(PyMul(PyMul(PyAdd(speed.value, MULTIPLIER_CALORIES_3),
                                       MULTIPLIER_CALORIES_4),
                                 self.weight),
                           self.duration))
         : speed \in {get_mean_speed(self)}})

\* method resolution: every subclass overrides get_spent_calories
get_spent_calories(self) ==
    IF self.cls = "Running" THEN Running_get_spent_calories(self)
    ELSE IF self.cls = "SportsWalking" THEN SportsWalking_get_spent_calories(self)
    ELSE IF self.cls = "Swimming" THEN Swimming_get_spent_calories(self)
    ELSE Training_get_spent_calories(self)

\* variant: distance and speed passed in each other's place
show_training_info_swapped(self) ==
    The({IF speed.status # "ok" THEN speed
         ELSE IF calories.status # "ok" THEN calories
         ELSE InfoMessage(<<PyStr(self.cls), self.duration, speed.value,
                            distance.value, calories.value>>)
         : distance \in {get_distance(self)},
           speed    \in {get_mean_speed(self)},
           calories \in {get_spent_calories(self)}})

\* the arguments are evaluated left to right; the first exception propagates
show_training_info(self) ==
    The({IF speed.status # "ok" THEN speed
         ELSE IF calories.status # "ok" THEN calories
         ELSE InfoMessage(<<PyStr(self.cls), self.duration, distance.value,
                            speed.value, calories.value>>)
         : distance \in {get_distance(self)},
           speed    \in {get_mean_speed(self)},
           calories \in {get_spent_calories(self)}})

---------------------------------------------------------------------------
(* read_package *)

training_types == [SWM |-> "Swimming", RUN |-> "Running", WLK |-> "SportsWalking"]

\* variant: an unrecognized code falls back to a default activity
read_package_default(workout_type, data) ==
    IF workout_type \notin DOMAIN training_types THEN New("Running", data)
    ELSE New(training_types[workout_type], data)

read_package(workout_type, data) ==
    IF workout_type \notin DOMAIN training_types THEN Raise("ValueError")
    ELSE New(training_types[workout_type], data)

\* the packages of the driver
packages ==
    << <<"SWM", <<PyInt(720), PyInt(1), PyInt(80), PyInt(25), PyInt(40)>> >>,
       <<"RUN", <<PyInt(15000), PyInt(1), PyInt(75)>> >>,
       <<"WLK", <<PyInt(9000), PyInt(1), PyInt(75), PyInt(180)>> >> >>

---------------------------------------------------------------------------
(* Inputs tried *)

Codes == {"SWM", "RUN", "WLK", "XYZ", ""}

Actions == (0..MaxAction) \cup {15000}

Durations == 0..MaxDuration

\* the integers tried at position i of a readings list
Readings(i) ==
    IF i = 1 THEN Actions
    ELSE IF i = 2 THEN Durations
    ELSE IF i = 3 THEN {75}
    ELSE IF i = 4 THEN {0, 180}
    ELSE IF i = 5 THEN {40}
    ELSE {1}

RECURSIVE ListsOfLen(_)
ListsOfLen(n) ==
    IF n = 0 THEN {<<>>}
    ELSE {Append(l, PyInt(v)) : l \in ListsOfLen(n - 1), v \in Readings(n)}

DataLists == UNION {ListsOfLen(n) : n \in 0..MaxLen}

\* a template other than the default one
OtherMessage == << Lit("kcal="), Field("calories", ".3f") >>

\* argument lists tried for InfoMessage(...)
InfoArgs ==
    LET five == {<<PyStr("Running"), PyInt(d), Decimal(975, 100), Decimal(975, 100),
                   Decimal(797805, 1000)>> : d \in 1..MaxDuration}
    IN  five \cup {a \o <<OtherMessage>> : a \in five}
             \cup {SubSeq(a, 1, 4) : a \in five}

\* the value tried in an assignment to a field of an InfoMessage
Assigned(field) ==
    IF field = "training_type" THEN PyStr("Swimming")
    ELSE IF field = "Message" THEN OtherMessage
    ELSE PyInt(0)

---------------------------------------------------------------------------
(* State: the objects the caller holds and the outcome of its last call *)

Call(op, args, outcome) ==
    [op |-> op, args |-> args, status |-> outcome.status, value |-> outcome.value]

Init ==
    /\ training = NoTraining
    /\ info = NoInfo
    /\ result = Call("start", <<>>, Return(PyNone))

\* training = read_package(workout_type, data).  The iterations of the driver
\* loop share no state, so a behaviour is one iteration, on any package; an
\* exception leaves the caller without a session
ReadPackage(workout_type, data) ==
    /\ result.op = "start"
    /\ \E r \in {read_package(workout_type, data)} :
          /\ training' = IF r.status = "ok" THEN r.value ELSE NoTraining
          /\ info' = NoInfo
          /\ result' = Call("read_package", <<workout_type, data>>, r)

\* training = Training(action, duration, weight): a session of the base class
NewTraining(args) ==
    /\ result.op = "start"
    /\ \E r \in {New("Training", args)} :
          /\ training' = IF r.status = "ok" THEN r.value ELSE NoTraining
          /\ info' = NoInfo
          /\ result' = Call("Training", args, r)

GetDistance ==
    /\ training.cls # "None"
    /\ \E r \in {get_distance(training)} : result' = Call("get_distance", <<>>, r)
    /\ UNCHANGED <<training, info>>

GetMeanSpeed ==
    /\ training.cls # "None"
    /\ \E r \in {get_mean_speed(training)} : result' = Call("get_mean_speed", <<>>, r)
    /\ UNCHANGED <<training, info>>

GetSpentCalories ==
    /\ training.cls # "None"
    /\ \E r \in {get_spent_calories(training)} : result' = Call("get_spent_calories", <<>>, r)
    /\ UNCHANGED <<training, info>>

\* info = training.show_training_info()
ShowTrainingInfo ==
    /\ training.cls # "None"
    /\ \E r \in {show_training_info(training)} :
          /\ info' = IF r.status = "ok" THEN r.value ELSE info
          /\ result' = Call("show_training_info", <<>>, r)
    /\ UNCHANGED training

GetMessage ==
    /\ info.cls # "None"
    /\ \E r \in {get_message(info)} : result' = Call("get_message", <<>>, r)
    /\ UNCHANGED <<training, info>>

\* info = InfoMessage(*args)
NewInfoMessage(args) ==
    /\ \E r \in {InfoMessage(args)} :
          /\ info' = IF r.status = "ok" THEN r.value ELSE info
          /\ result' = Call("InfoMessage", args, r)
    /\ UNCHANGED training

\* info.<field> = value: the dataclass is not frozen
SetAttr(field, value) ==
    /\ info.cls # "None"
    /\ info' = [info EXCEPT ![field] = value]
    /\ result' = Call("setattr", <<field>>, Return(PyNone))
    /\ UNCHANGED training

Next ==
    \/ \E workout_type \in Codes, data \in DataLists : ReadPackage(workout_type, data)
    \/ \E args \in ListsOfLen(2) \cup ListsOfLen(3) \cup ListsOfLen(4) : NewTraining(args)
    \/ GetDistance
    \/ GetMeanSpeed
    \/ GetSpentCalories
    \/ ShowTrainingInfo
    \/ GetMessage

Spec == Init /\ [][Next]_vars

\* the driver's packages, and the reports handled as plain objects
NextInfo ==
    \/ \E i \in 1..Len(packages) : ReadPackage(packages[i][1], packages[i][2])
    \/ ShowTrainingInfo
    \/ GetMessage
    \/ \E args \in InfoArgs : NewInfoMessage(args)
    \/ \E field \in InfoFields : SetAttr(field, Assigned(field))

SpecInfo == Init /\ [][NextInfo]_vars

---------------------------------------------------------------------------
(* Properties *)

Known == {"SWM", "RUN", "WLK"}

Concrete == {"Running", "SportsWalking", "Swimming"}

\* C1: read_package with a code other than SWM, RUN, WLK raises ValueError
\* whatever the readings list (also one whose length fits no class), returns
\* nothing and leaves the caller without a session.
C1_UnknownCode ==
    (result.op = "read_package" /\ result.args[1] \notin Known)
        => /\ result.status = "ValueError"
           /\ result.value = PyNone
           /\ training = NoTraining

C1_Witness ==
    /\ result.op = "read_package"
    /\ result.args[1] = "XYZ"
    /\ Len(result.args[2]) = 0
    /\ result.status = "ValueError"

\* the arity and the session the specification gives for a code
C2_Arity(code) == IF code = "SWM" THEN 5 ELSE IF code = "WLK" THEN 4 ELSE 3

C2_Session(code, data) ==
    IF code = "SWM"
    THEN [cls |-> "Swimming", action |-> data[1], duration |-> data[2],
          weight |-> data[3], length_pool |-> data[4], count_pool |-> data[5]]
    ELSE IF code = "WLK"
    THEN [cls |-> "SportsWalking", action |-> data[1], duration |-> data[2],
          weight |-> data[3], height |-> data[4]]
    ELSE [cls |-> "Running", action |-> data[1], duration |-> data[2],
          weight |-> data[3]]

\* C2: read_package with a recognized code and a readings list of the arity of
\* the mapped class (RUN 3, WLK 4, SWM 5) returns a session of that class with
\* the readings bound in order; any other length raises and gives no session.
C2_PositionalBinding ==
    (result.op = "read_package" /\ result.args[1] \in Known)
        => IF Len(result.args[2]) = C2_Arity(result.args[1])
           THEN /\ result.status = "ok"
                /\ training = C2_Session(result.args[1], result.args[2])
                /\ result.value = training
           ELSE /\ result.status = "TypeError"
                /\ training = NoTraining

C2_Witness ==
    /\ result.op = "read_package"
    /\ result.args[1] = "SWM"
    /\ result.status = "ok"
    /\ training.cls = "Swimming"
    /\ training.length_pool = PyInt(180)
    /\ training.count_pool = PyInt(40)

\* the Running package of the driver
Scenario ==
    [cls |-> "Running", action |-> PyInt(15000), duration |-> PyInt(1),
     weight |-> PyInt(75)]

\* C3 (as amended): for the Running session action=15000, duration=1,
\* weight=75, get_distance() and get_mean_speed() are 9.75 and
\* get_spent_calories() is 797.805 to 3 decimals; the report renders them as
\* 9.750, 9.750 and 797.805.
C3_RunningScenario ==
    (training = Scenario)
        => /\ result.op \in {"get_distance", "get_mean_speed"}
                => /\ result.status = "ok"
                   /\ result.value = Decimal(975, 100)
                   /\ Format3f(result.value) = "9.750"
           /\ result.op = "get_spent_calories"
                => /\ result.status = "ok"
                   /\ Format3f(result.value) = "797.805"
           /\ result.op = "get_message"
                => result.value
                     = PyStr("Tip trenirovki: Running; Dlitelnost: 1.000 ch.; "
                             \o "Distantsiya: 9.750 km; Sr. skorost: 9.750 km/ch; "
                             \o "Potracheno kkal: 797.805.")

C3_Witness ==
    /\ training = Scenario
    /\ result.op = "get_message"
    /\ info.cls = "InfoMessage"
    /\ Format3f(info.calories) = "797.805"

\* C3 as first stated: the calories of that session render as 797.003.
C3_Original ==
    (training = Scenario /\ result.op = "get_spent_calories")
        => Format3f(result.value) = "797.003"

C4_WithAction(self, a) == [self EXCEPT !.action = PyInt(a)]

\* C4: with a non-zero duration, get_mean_speed() of a session that is not a
\* Swimming one is get_distance() / duration; of a Swimming session it is
\* length_pool * count_pool / M_IN_KM / duration, the same for every action
\* count, as are the calories, while the distances differ.
C4_MeanSpeed ==
    (result.op = "get_mean_speed" /\ ~IsZero(training.duration))
        => /\ result.status = "ok"
           /\ IF training.cls = "Swimming"
              THEN /\ result.value
                        = PyTrueDiv(PyTrueDiv(PyMul(training.length_pool,
                                                    training.count_pool),
                                              M_IN_KM),
                                    training.duration)
                   /\ \A a \in Actions :
                        /\ get_mean_speed(C4_WithAction(training, a)).value = result.value
                        /\ get_spent_calories(C4_WithAction(training, a))
                             = get_spent_calories(training)
                        /\ PyInt(a) # training.action
                             => get_distance(C4_WithAction(training, a))
                                  # get_distance(training)
              ELSE result.value
                     = PyTrueDiv(get_distance(training).value, training.duration)

C4_Witness ==
    /\ result.op = "get_mean_speed"
    /\ result.status = "ok"
    /\ training.cls = "Swimming"
    /\ training.action = PyInt(7)
    /\ training.length_pool = PyInt(180)
    /\ ~IsZero(result.value)

\* the value of get_distance() * M_IN_KM / LEN_STEP for the session held
RoundTrip == PyTrueDiv(PyMul(result.value, PyInt(1000)), LEN_STEP(training.cls))

\* C5 (as amended): get_distance() is action * LEN_STEP / 1000 in float
\* arithmetic, with LEN_STEP 0.65, or 1.38 for Swimming; get_distance() *
\* M_IN_KM / LEN_STEP recovers the action count up to rounding: the nearest
\* integer to it is action.
C5_Distance ==
    (result.op = "get_distance")
        => /\ result.status = "ok"
           /\ result.value
                = PyTrueDiv(PyMul(training.action,
                                  IF training.cls = "Swimming" THEN Decimal(138, 100)
                                  ELSE Decimal(65, 100)),
                            PyInt(1000))
           /\ RoundHalfEven(RoundTrip, 1) = training.action.n

C5_Witness ==
    /\ result.op = "get_distance"
    /\ training.cls = "Swimming"
    /\ training.action = PyInt(7)
    /\ RoundTrip # FromInt(7)

\* C5 as first stated: get_distance() * M_IN_KM / LEN_STEP == action.
C5_Original ==
    (result.op = "get_distance") => RoundTrip = ToFloat(training.action)

\* C6: once an InfoMessage exists, no operation on it changes one of its
\* fields (a step that is not the creation of a report leaves it as it is).
C6_Immutable ==
    [][(info.cls = "InfoMessage"
          /\ result'.op \notin {"read_package", "show_training_info", "InfoMessage"})
       => info' = info]_vars

\* C7: get_message() always renders the five fields into the one fixed
\* template, whatever was passed to the constructor or assigned to a field.
C7_FixedTemplate ==
    (result.op = "get_message" /\ result.status = "ok")
        => result.value = PyStr(Format(Message, asdict(info)))

C9_Defined(self) ==
    /\ self.cls \in Concrete
    /\ ~IsZero(self.duration)
    /\ self.cls = "SportsWalking" => ~IsZero(self.height)

C10_ClosedForm(self) ==
    PyTrueDiv(PyMul(PyMul(PyAdd(PyMul(PyInt(18), get_distance(self).value),
                                PyMul(Decimal(179, 100), self.duration)),
                          self.weight),
                    PyInt(60)),
              PyInt(1000))

C10_WithDuration(self, d) == [self EXCEPT !.duration = PyInt(d)]

\* C10 (as amended): for a Running session with duration > 0,
\* get_spent_calories() is (18 * get_mean_speed() + 1.79) * weight / 1000 *
\* duration * 60; it agrees with (18 * get_distance() + 1.79 * duration) *
\* weight * 60 / 1000 up to rounding (to 2^-45 of its value), is positive, and
\* is larger for a longer whole number of hours.
C10_RunningCalories ==
    (result.op = "get_spent_calories" /\ training.cls = "Running"
        /\ ~IsZero(training.duration))
        => /\ result.status = "ok"
           /\ result.value
                = PyMul(PyMul(PyTrueDiv(PyMul(PyAdd(PyMul(PyInt(18),
                                                          get_mean_speed(training).value),
                                                    Decimal(179, 100)),
                                              training.weight),
                                        PyInt(1000)),
                              training.duration),
                        PyInt(60))
           /\ FClose(result.value, C10_ClosedForm(training), 45)
           /\ FLess(Zero, result.value)
           /\ \A d \in Durations :
                d > training.duration.n
                    => FLess(result.value,
                             get_spent_calories(C10_WithDuration(training, d)).value)

C10_Witness ==
    /\ result.op = "get_spent_calories"
    /\ training.cls = "Running"
    /\ training.action = PyInt(1)
    /\ training.duration = PyInt(1)
    /\ result.value # C10_ClosedForm(training)

\* C10 as first stated: the calories equal the closed form.
C10_Original ==
    (result.op = "get_spent_calories" /\ training.cls = "Running"
        /\ ~IsZero(training.duration))
        => result.value = C10_ClosedForm(training)

====
